---- MODULE Spec2Model ----
(***************************************************************************)
(* Pair sampling, caching and dataset splitting of the Moving MNIST        *)
(* time-gap classifier (capstone_project/preprocessing.py and main.py).    *)
(*                                                                         *)
(* Arrays are modelled by their contents up to pixel values: a frame of    *)
(* the raw video array is the pair <<row, frame index>>, a frame stack is  *)
(* the sequence of frames that row[target_frames] selects, one sample of X *)
(* is the pair of stacks, and y is the sequence of labels.  Python's       *)
(* 0-based lists are 1-based sequences here; dict keys, frame indices and  *)
(* bucket ids keep their Python values.  One data file name is modelled,   *)
(* so X_path and y_path (lines 89-91) name the two files X_pkl and y_pkl.  *)
(***************************************************************************)
EXTENDS Integers, Sequences, FiniteSets, TLC

VARIABLES
    data_file,   \* shape of the .npy array on disk: <<frames, videos, H, W>>
    mt_stream,   \* raw outputs of the generator once seeded with SEED
    np_random,   \* numpy's global generator: position in its output stream
    X_pkl,       \* contents of <filename>_X.pkl, or NoFile
    y_pkl,       \* contents of <filename>_y.pkl, or NoFile
    caller,      \* history: who made the latest get_paired_data call
    call,        \* arguments of the latest get_paired_data call
    outcome,     \* how that call ended
    X_ret,       \* the X it returned
    y_ret,       \* the y it returned
    events,      \* the I/O it performed, in order
    last_written, \* history: the X and y most recently saved to the cache
    fn_args,     \* arguments of a helper applied on its own, or Idle
    fn_result    \* the helper's result, or Pending

vars == <<data_file, mt_stream, np_random, X_pkl, y_pkl, caller, call, outcome,
          X_ret, y_ret, events, last_written, fn_args, fn_result>>

pipeline_vars == <<data_file, mt_stream, np_random, X_pkl, y_pkl, caller, call,
                   outcome, X_ret, y_ret, events, last_written>>

----------------------------------------------------------------------------
(* Bounds *)

MaxTime == 2            \* largest time difference in an enumerated bucket
MaxBuckets == 3         \* most buckets in an enumerated bucket list
MaxNumTotalFrames == 6  \* get_frame_differences_dict on its own
MaxFrameDiff == 6
MaxNumFramesInStack == 3
MaxDatasetLen == 12     \* generate_dataloader's split on its own
FractionBits == 3       \* test_size, val_size are multiples of 2^-FractionBits
MaxSeqLen == 3          \* frames per video, besides the 20 of Moving MNIST
MaxVideos == 2          \* videos in the data file
MaxPasses == 2          \* num_passes_for_generation
MaxPairs == 2           \* num_pairs_per_example
MaxStack == 2           \* num_frames_in_stack
StreamLen == 2          \* period of the modelled generator
MaxRaw == 1             \* largest raw output of the modelled generator

----------------------------------------------------------------------------
(* Values *)

NoFile == [exists |-> FALSE]
Idle == [fn |-> "none"]
Pending == [done |-> FALSE]
Done(v) == [done |-> TRUE, value |-> v]

Range(s) == {s[i] : i \in DOMAIN s}

SetMax(S) == CHOOSE x \in S : \A z \in S : z <= x

\* list(range(a, b, 1))
PyRange(a, b) == [i \in 1..(b - a) |-> a + i - 1]

\* {}
EmptyDict == [k \in {} |-> 0]

\* d[k] = v
DictSet(d, k, v) == [x \in (DOMAIN d) \cup {k} |-> IF x = k THEN v ELSE d[x]]

RECURSIVE Hstack(_)
Hstack(lists) ==
    IF lists = <<>> THEN <<>> ELSE Head(lists) \o Hstack(Tail(lists))

ArrayMax(a) == SetMax(Range(a))

----------------------------------------------------------------------------
(* main.py globals *)

IN_DIM == 64
\* frames per video of the Moving MNIST file mnist_test_seq.npy
MNIST_SEQ_LEN == 20
NUM_ROWS == 1
NUM_FRAMES_IN_STACK == 1
NUM_VIDEOS_PER_ROW == 1
TIME_BUCKETS ==
    << <<0>>, <<1>>, <<2>>, <<3, 4>>, PyRange(5, 11), PyRange(11, 20) >>

----------------------------------------------------------------------------
(* get_time_buckets_dict *)

RECURSIVE BucketTimesLoop(_, _, _, _)
BucketTimesLoop(bucket, j, bucket_idx, buckets_dict) ==
    IF j > Len(bucket) THEN buckets_dict
    ELSE BucketTimesLoop(bucket, j + 1, bucket_idx,
                         DictSet(buckets_dict, bucket[j], bucket_idx))

RECURSIVE BucketsLoop(_, _, _, _)
BucketsLoop(time_buckets, i, bucket_idx, buckets_dict) ==
    IF i > Len(time_buckets) THEN buckets_dict
    ELSE BucketsLoop(time_buckets, i + 1, bucket_idx + 1,
                     BucketTimesLoop(time_buckets[i], 1, bucket_idx, buckets_dict))

\* the plausible slip: classes numbered from 1
get_time_buckets_dict_from1(time_buckets) ==
    BucketsLoop(time_buckets, 1, 1, EmptyDict)

get_time_buckets_dict(time_buckets) ==
    BucketsLoop(time_buckets, 1, 0, EmptyDict)

----------------------------------------------------------------------------
(* get_frame_differences_dict *)

\* the plausible slip: the loop runs one frame past the end of the video
RECURSIVE FramesWhileLoopPastEnd(_, _, _, _)
FramesWhileLoopPastEnd(pairs, start_frame, end_frame, num_total_frames) ==
    IF end_frame <= num_total_frames
    THEN FramesWhileLoopPastEnd(Append(pairs, <<start_frame, end_frame>>),
                                start_frame + 1, end_frame + 1, num_total_frames)
    ELSE pairs

\* the while loop for one diff: the list it leaves under differences_dict[diff]
RECURSIVE FramesWhileLoop(_, _, _, _)
FramesWhileLoop(pairs, start_frame, end_frame, num_total_frames) ==
    IF end_frame <= num_total_frames - 1
    THEN FramesWhileLoop(Append(pairs, <<start_frame, end_frame>>),
                         start_frame + 1, end_frame + 1, num_total_frames)
    ELSE pairs

\* setdefault creates the key diff only when the while loop runs at least once
get_frame_differences_dict(num_total_frames, max_frame_diff, num_frames_in_stack) ==
    LET differences == 0..max_frame_diff
        pairs_at(diff) == FramesWhileLoop(<<>>, num_frames_in_stack - 1,
                                          num_frames_in_stack - 1 + diff,
                                          num_total_frames)
    IN  [diff \in {d \in differences : pairs_at(d) # <<>>} |-> pairs_at(diff)]

----------------------------------------------------------------------------
(* generate_dataloader: the sizes handed to random_split.                  *)
(* test_size and val_size are the fractions test_num/Denominator and       *)
(* val_num/Denominator.  With a power of two as denominator every product  *)
(* and difference below is exact in double precision and the one division  *)
(* is correctly rounded, so floor() of the float equals the integer        *)
(* quotient taken here.                                                    *)

RECURSIVE Pow2(_)
Pow2(n) == IF n = 0 THEN 1 ELSE 2 * Pow2(n - 1)

Denominator == Pow2(FractionBits)

\* the plausible slip: train is what is left of the whole dataset after val
split_sizes_train_of_all(dataset_len, test_num, val_num) ==
    IF test_num = Denominator THEN "ZeroDivisionError"
    ELSE LET num_test == (test_num * dataset_len) \div Denominator
             num_train_val == dataset_len - num_test
             num_val == (num_train_val * val_num) \div (Denominator - test_num)
             num_train == dataset_len - num_val
         IN  [num_train |-> num_train, num_val |-> num_val, num_test |-> num_test]

\* the plausible slip: val_size taken as a fraction of the non-test remainder
split_sizes_val_of_rest(dataset_len, test_num, val_num) ==
    IF test_num = Denominator THEN "ZeroDivisionError"
    ELSE LET num_test == (test_num * dataset_len) \div Denominator
             num_train_val == dataset_len - num_test
             num_val == (num_train_val * val_num) \div Denominator
             num_train == num_train_val - num_val
         IN  [num_train |-> num_train, num_val |-> num_val, num_test |-> num_test]

split_sizes(dataset_len, test_num, val_num) ==
    IF test_num = Denominator THEN "ZeroDivisionError"
    ELSE LET num_test == (test_num * dataset_len) \div Denominator
             num_train_val == dataset_len - num_test
             num_val == (num_train_val * val_num) \div (Denominator - test_num)
             num_train == num_train_val - num_val
         IN  [num_train |-> num_train, num_val |-> num_val, num_test |-> num_test]

----------------------------------------------------------------------------
(* numpy's global generator.  np.random.seed(s) puts it at the start of    *)
(* the output stream that s determines; the stream itself (mt_stream) is   *)
(* fixed but unknown.  choice(n, size=k) turns the next k raw outputs into *)
(* indices below n and advances the generator.                             *)

SEED == 1337

\* the plausible slip: the generator is seeded once elsewhere, not per call
np_random_seed_kept(seed, rng) == rng

np_random_seed(seed, rng) == [rng EXCEPT !.pos = 0]

np_random_choice(rng, n, size) ==
    [idx  |-> [i \in 1..size |-> mt_stream[((rng.pos + i - 1) % StreamLen) + 1] % n],
     rng  |-> [rng EXCEPT !.pos = (rng.pos + size) % StreamLen]]

----------------------------------------------------------------------------
(* load_data, get_samples_at_difference, get_paired_data *)

\* np.load(filename).swapaxes(0, 1): the shape of the array it returns
load_data(file_shape) == <<file_shape[2], file_shape[1], file_shape[3], file_shape[4]>>

\* the plausible slip: the stack ends one frame before the candidate's frame
StackFramesShifted(row, last_frame, num_frames_in_stack) ==
    [j \in 1..num_frames_in_stack |-> <<row, last_frame - num_frames_in_stack + j - 1>>]

\* row[list(range(last_frame-num_frames_in_stack+1, last_frame+1))]
StackFrames(row, last_frame, num_frames_in_stack) ==
    [j \in 1..num_frames_in_stack |-> <<row, last_frame - num_frames_in_stack + j>>]

\* data holds the rows 0..num_rows-1; the lists are built row by row and,
\* within a row, in the order of idx_pairs.
get_samples_at_difference(num_rows, difference, differences_dict, num_pairs_per_example, num_frames_in_stack, time_buckets_dict, rng) ==
    IF difference \notin DOMAIN differences_dict
    THEN [raised |-> "KeyError", video_pairs |-> <<>>, y |-> <<>>, rng |-> rng]
    ELSE
    LET candidates == differences_dict[difference]
        seeded == np_random_seed(SEED, rng)
        drawn == np_random_choice(seeded, Len(candidates), num_pairs_per_example)
        idx_pairs == drawn.idx
        n == num_rows * num_pairs_per_example
        row_of(i) == (i - 1) \div num_pairs_per_example
        pair_of(i) == candidates[idx_pairs[((i - 1) % num_pairs_per_example) + 1] + 1]
    IN  IF n > 0 /\ difference \notin DOMAIN time_buckets_dict
        THEN [raised |-> "KeyError", video_pairs |-> <<>>, y |-> <<>>, rng |-> drawn.rng]
        ELSE [raised |-> "none",
              video_pairs |-> [i \in 1..n |->
                  << StackFrames(row_of(i), pair_of(i)[1], num_frames_in_stack),
                     StackFrames(row_of(i), pair_of(i)[2], num_frames_in_stack) >>],
              y |-> [i \in 1..n |-> time_buckets_dict[difference]],
              rng |-> drawn.rng]

\* the plausible slip: only the latest batch is kept
VstackKeepsLatest(X, video_pairs) == video_pairs

\* np.vstack((X, video_pairs)) if X.size else video_pairs
Vstack(X, video_pairs) == IF Len(X) # 0 THEN X \o video_pairs ELSE video_pairs

\* the two nested loops of get_paired_data, from pass i and the given
\* difference on; acc carries X, y, the generator and a raised exception
RECURSIVE GenerationLoop(_, _, _, _)
GenerationLoop(g, i, difference, acc) ==
    IF i >= g.num_passes_for_generation THEN acc
    ELSE IF difference > g.max_frame_diff THEN GenerationLoop(g, i + 1, 0, acc)
    ELSE LET s == get_samples_at_difference(g.num_rows, difference, g.differences_dict,
                      g.num_pairs_per_example, g.num_frames_in_stack,
                      g.time_buckets_dict, acc.rng)
         IN  IF s.raised # "none"
             THEN [acc EXCEPT !.raised = s.raised, !.rng = s.rng]
             ELSE GenerationLoop(g, i, difference + 1,
                      [X |-> Vstack(acc.X, s.video_pairs),
                       y |-> acc.y \o s.y,
                       rng |-> s.rng,
                       raised |-> "none"])

\* the plausible slip: the stack length left out of the precondition
PreconditionIgnoresStack(max_frame_diff, num_total_frames, num_frames_in_stack) ==
    max_frame_diff <= num_total_frames - 1

\* assert max_frame_diff <= num_total_frames-num_frames_in_stack
Precondition(max_frame_diff, num_total_frames, num_frames_in_stack) ==
    max_frame_diff <= num_total_frames - num_frames_in_stack

\* the plausible slip: force is not consulted
CacheHitIgnoresForce(force, X_file, y_file) == X_file.exists /\ y_file.exists

\* not force and os.path.exists(X_path) and os.path.exists(y_path)
CacheHit(force, X_file, y_file) == ~force /\ X_file.exists /\ y_file.exists

\* utils.save_object, utils.load_object: pickle.dump and pickle.load
save_object(obj) == [exists |-> TRUE, pickled |-> <<"pickle", obj>>]
load_object(file) == file.pickled[2]

num_frames_in_stack_default == 2

\* lines 100-109: both dictionaries and the passes over the data, starting
\* from the generator state rng
generate(data, time_buckets, num_passes_for_generation, num_pairs_per_example, num_frames_in_stack, rng) ==
    LET max_frame_diff == ArrayMax(Hstack(time_buckets))
        g == [num_rows |-> data[1],
              max_frame_diff |-> max_frame_diff,
              num_passes_for_generation |-> num_passes_for_generation,
              num_pairs_per_example |-> num_pairs_per_example,
              num_frames_in_stack |-> num_frames_in_stack,
              time_buckets_dict |-> get_time_buckets_dict(time_buckets),
              differences_dict |->
                  get_frame_differences_dict(data[2], max_frame_diff, num_frames_in_stack)]
    IN  GenerationLoop(g, 0, 0, [X |-> <<>>, y |-> <<>>, rng |-> rng, raised |-> "none"])

get_paired_data(time_buckets, num_passes_for_generation, num_pairs_per_example, num_frames_in_stack, force) ==
    LET data == load_data(data_file)
        num_total_frames == data[2]
        max_frame_diff == ArrayMax(Hstack(time_buckets))
    IN
    /\ call' = [time_buckets |-> time_buckets,
                num_passes_for_generation |-> num_passes_for_generation,
                num_pairs_per_example |-> num_pairs_per_example,
                num_frames_in_stack |-> num_frames_in_stack, force |-> force]
    /\ IF ~Precondition(max_frame_diff, num_total_frames, num_frames_in_stack)
       THEN /\ outcome' = "AssertionError"
            /\ events' = <<"np.load", "imshow">>
            /\ X_ret' = <<>>
            /\ y_ret' = <<>>
            /\ UNCHANGED <<X_pkl, y_pkl, np_random, last_written>>
       ELSE IF CacheHit(force, X_pkl, y_pkl)
       THEN /\ outcome' = "returned"
            /\ events' = <<"np.load", "imshow", "exists", "load_X", "load_y">>
            /\ X_ret' = load_object(X_pkl)
            /\ y_ret' = load_object(y_pkl)
            /\ UNCHANGED <<X_pkl, y_pkl, np_random, last_written>>
       ELSE LET looked == IF force THEN <<>> ELSE <<"exists">>
            IN  \E gen \in {generate(data, time_buckets, num_passes_for_generation,
                                     num_pairs_per_example, num_frames_in_stack,
                                     np_random)} :
                /\ np_random' = gen.rng
                /\ IF gen.raised # "none"
                   THEN /\ outcome' = gen.raised
                        /\ events' = <<"np.load", "imshow">> \o looked \o <<"generate">>
                        /\ X_ret' = <<>>
                        /\ y_ret' = <<>>
                        /\ UNCHANGED <<X_pkl, y_pkl, last_written>>
                   ELSE /\ outcome' = "returned"
                        /\ events' = <<"np.load", "imshow">> \o looked
                                        \o <<"generate", "save_X", "save_y">>
                        /\ X_pkl' = save_object(gen.X)
                        /\ y_pkl' = save_object(gen.y)
                        /\ last_written' = [X |-> gen.X, y |-> gen.y]
                        /\ X_ret' = gen.X
                        /\ y_ret' = gen.y
    /\ UNCHANGED <<data_file, mt_stream, fn_args, fn_result>>

\* array.shape of an X built by np.array(video_pairs) and np.vstack
ArrayShape(X) ==
    IF Len(X) = 0 THEN <<0>>
    ELSE <<Len(X), Len(X[1]), Len(X[1][1]), load_data(data_file)[3], load_data(data_file)[4]>>

----------------------------------------------------------------------------
(* The pipeline: calls of get_paired_data on one data file *)

SeqLens == (2..MaxSeqLen) \cup {MNIST_SEQ_LEN}

CallTimeBuckets ==
    { << <<0>> >>,
      << <<0>>, <<1>> >>,
      << <<0>>, <<1, 2>> >>,
      << <<0>>, <<2>> >> }

NoCall ==
    [time_buckets |-> <<>>, num_passes_for_generation |-> 0,
     num_pairs_per_example |-> 0, num_frames_in_stack |-> 0, force |-> FALSE]

\* a fresh process: numpy's generator is in a state of its own choosing and
\* nothing has been called
InitProcess ==
    /\ data_file \in {<<f, v, IN_DIM, IN_DIM>> : f \in SeqLens, v \in 1..MaxVideos}
    /\ mt_stream \in [1..StreamLen -> 0..MaxRaw]
    /\ np_random \in [pos : 0..(StreamLen - 1)]
    /\ caller = "none"
    /\ call = NoCall
    /\ outcome = "none"
    /\ X_ret = <<>>
    /\ y_ret = <<>>
    /\ events = <<>>
    /\ fn_args = Idle
    /\ fn_result = Pending

Init ==
    /\ InitProcess
    /\ X_pkl = NoFile
    /\ y_pkl = NoFile
    /\ last_written = [X |-> <<>>, y |-> <<>>]

\* any caller of get_paired_data
Call ==
    \E time_buckets \in CallTimeBuckets,
       num_passes_for_generation \in 1..MaxPasses,
       num_pairs_per_example \in 1..MaxPairs,
       num_frames_in_stack \in 1..MaxStack,
       force \in BOOLEAN :
        /\ caller' = "caller"
        /\ get_paired_data(time_buckets, num_passes_for_generation,
                           num_pairs_per_example, num_frames_in_stack, force)

\* main(): its get_paired_data call; num_frames_in_stack is not passed
Main ==
    /\ caller' = "main"
    /\ get_paired_data(TIME_BUCKETS, NUM_ROWS, NUM_VIDEOS_PER_ROW,
                       num_frames_in_stack_default, FALSE)

Next == Call \/ Main

Spec == Init /\ [][Next]_vars

----------------------------------------------------------------------------
(* One call in a fresh process, with the cache either absent or left on   *)
(* disk by an earlier run of the smallest generating call                 *)

EarlierRun ==
    generate(load_data(data_file), << <<0>>, <<1>> >>, 1, 1, 1, [pos |-> 0])

InitOneCall ==
    /\ InitProcess
    /\ \E earlier \in {EarlierRun} :
           \/ /\ X_pkl = NoFile
              /\ y_pkl = NoFile
              /\ last_written = [X |-> <<>>, y |-> <<>>]
           \/ /\ X_pkl = save_object(earlier.X)
              /\ y_pkl = save_object(earlier.y)
              /\ last_written = [X |-> earlier.X, y |-> earlier.y]

FirstCall ==
    /\ caller = "none"
    /\ Call

FirstMain ==
    /\ caller = "none"
    /\ Main

NextOneCall == FirstCall \/ FirstMain

SpecOneCall == InitOneCall /\ [][NextOneCall]_vars

----------------------------------------------------------------------------
(* Properties of the pipeline.  The inputs of the latest call are read off *)
(* the data file and the call record, not off the helpers above.           *)

NumTotalFrames == data_file[1]
NumVideos == data_file[2]
Called == caller # "none"
MaxDiffOf(c) == SetMax(UNION {Range(c.time_buckets[b]) : b \in DOMAIN c.time_buckets})
PreconditionHolds(c) == MaxDiffOf(c) <= NumTotalFrames - c.num_frames_in_stack
\* every difference 0..max_diff lies in some bucket
BucketsCover(c) ==
    \A d \in 0..MaxDiffOf(c) : \E b \in DOMAIN c.time_buckets : d \in Range(c.time_buckets[b])
Did(e) == e \in Range(events)
Generated == Called /\ outcome = "returned" /\ Did("generate")
Passes == call.num_passes_for_generation
Pairs == call.num_pairs_per_example
StackLen == call.num_frames_in_stack

\* C1 as stated: a generating call returns X of shape (N, 2, stack, H, W) and
\* y of shape (N,) with N = num_videos x num_passes x num_pairs_per_example.
C1_ShapeWithoutDifferences ==
    Generated =>
        LET N == NumVideos * Passes * Pairs
        IN  /\ ArrayShape(X_ret) = <<N, 2, StackLen, data_file[3], data_file[4]>>
            /\ Len(y_ret) = N

\* C1 amended: the same shapes with
\* N = num_videos x num_passes x (max_frame_diff + 1) x num_pairs_per_example,
\* one batch per pass and per difference 0..max_frame_diff.
C1_ShapeCountsDifferences ==
    Generated =>
        LET N == NumVideos * Passes * (MaxDiffOf(call) + 1) * Pairs
        IN  /\ ArrayShape(X_ret) = <<N, 2, StackLen, data_file[3], data_file[4]>>
            /\ Len(y_ret) = N

C1_Witness ==
    /\ Generated
    /\ NumVideos = 2 /\ Passes = 2 /\ Pairs = 2 /\ StackLen = 2
    /\ MaxDiffOf(call) = 1
    /\ Len(X_ret) = 16
    /\ Len(y_ret) = 16

\* What a non-forced call that passes the precondition does once both cache
\* files exist: it returns the arrays last written, generates nothing and
\* leaves the files alone, whatever its other arguments.
CacheIsReused ==
    (~call'.force /\ PreconditionHolds(call') /\ X_pkl.exists /\ y_pkl.exists) =>
        /\ outcome' = "returned"
        /\ X_ret' = last_written.X
        /\ y_ret' = last_written.y
        /\ "generate" \notin Range(events')
        /\ "save_X" \notin Range(events')
        /\ "save_y" \notin Range(events')
        /\ UNCHANGED <<X_pkl, y_pkl, last_written>>

Regenerates ==
    /\ outcome' = "returned"
    /\ "generate" \in Range(events')
    /\ "load_X" \notin Range(events')
    /\ "save_X" \in Range(events')
    /\ "save_y" \in Range(events')
    /\ X_pkl'.exists
    /\ y_pkl'.exists
    /\ last_written' = [X |-> X_ret', y |-> y_ret']

\* C2 as stated: the cache is reused as above, and a call with force=True
\* always regenerates and overwrites both files.
C2_ForceAlwaysRegenerates ==
    [][CacheIsReused /\ (call'.force => Regenerates)]_vars

\* C2 amended: the cache is reused as above, and a call with force=True that
\* passes the precondition and whose buckets cover every difference
\* 0..max_diff regenerates and overwrites both files.
C2_CacheRoundTrip ==
    [][CacheIsReused
       /\ ((call'.force /\ PreconditionHolds(call') /\ BucketsCover(call'))
              => Regenerates)]_vars

\* a cache hit whose arguments would have generated a different number of
\* samples than the cache holds
C2_Witness ==
    /\ Called
    /\ outcome = "returned"
    /\ Did("load_X")
    /\ ~call.force
    /\ X_ret = last_written.X
    /\ Len(X_ret) > 0
    /\ Len(X_ret) # NumVideos * Passes * (MaxDiffOf(call) + 1) * Pairs

\* C6: a call whose largest difference exceeds num_total_frames -
\* num_frames_in_stack ends in the assertion failure having only loaded and
\* shown the data: no cache lookup, no generation, no cache file read or
\* written, with or without cache files and whatever force is.
C6_FailFast ==
    [][~PreconditionHolds(call') =>
          /\ outcome' = "AssertionError"
          /\ events' = <<"np.load", "imshow">>
          /\ UNCHANGED <<X_pkl, y_pkl, last_written, np_random>>]_vars

C6_Witness ==
    /\ Called
    /\ ~PreconditionHolds(call)
    /\ outcome = "AssertionError"
    /\ call.force
    /\ X_pkl.exists
    /\ y_pkl.exists

\* C7: sample i of a generated X was built for difference d (the batches
\* follow the differences 0..max_diff within each pass, each batch row by
\* row): its stacks are runs of num_frames_in_stack consecutive frames of
\* one and the same row, inside the video, the second ending d frames after
\* the first, and y[i] is the index of a bucket holding d.
C7_SamplesMatchLabels ==
    Generated =>
        \A i \in 1..Len(X_ret) :
            LET d == ((i - 1) \div (NumVideos * Pairs)) % (MaxDiffOf(call) + 1)
                row == ((i - 1) \div Pairs) % NumVideos
                stack1 == X_ret[i][1]
                stack2 == X_ret[i][2]
                IsRun(st) ==
                    /\ Len(st) = StackLen
                    /\ \A j \in 1..StackLen :
                           /\ st[j][1] = row
                           /\ st[j][2] \in 0..(NumTotalFrames - 1)
                    /\ \A j \in 1..(StackLen - 1) : st[j + 1][2] = st[j][2] + 1
            IN  /\ IsRun(stack1)
                /\ IsRun(stack2)
                /\ stack2[StackLen][2] - stack1[StackLen][2] = d
                /\ y_ret[i] \in 0..(Len(call.time_buckets) - 1)
                /\ d \in Range(call.time_buckets[y_ret[i] + 1])

C7_Witness ==
    /\ Generated
    /\ StackLen = 2
    /\ NumVideos = 2
    /\ \E i \in 1..Len(X_ret) :
           /\ X_ret[i][1] = << <<1, 0>>, <<1, 1>> >>
           /\ X_ret[i][2] = << <<1, 1>>, <<1, 2>> >>
           /\ NumTotalFrames = 3
           /\ y_ret[i] = 1

\* C8: in a generated X the block of every pass repeats the block of the
\* first pass, samples and labels, in order; within a batch every row is cut
\* at the same frame indices as row 0; and X is what generation yields from
\* any state of the generator on entry, the reseeding having erased it.
FrameIndices(sample) ==
    << [j \in DOMAIN sample[1] |-> sample[1][j][2]],
       [j \in DOMAIN sample[2] |-> sample[2][j][2]] >>

C8_PassesRepeat ==
    Generated =>
        LET B == NumVideos * (MaxDiffOf(call) + 1) * Pairs
        IN  /\ Len(X_ret) = Passes * B
            /\ Len(y_ret) = Passes * B
            /\ \A p \in 2..Passes : \A i \in 1..B :
                   /\ X_ret[(p - 1) * B + i] = X_ret[i]
                   /\ y_ret[(p - 1) * B + i] = y_ret[i]
            /\ \A i \in 1..Len(X_ret) :
                   LET batch == (i - 1) \div (NumVideos * Pairs)
                       slot == (i - 1) % Pairs
                   IN  FrameIndices(X_ret[i])
                           = FrameIndices(X_ret[batch * NumVideos * Pairs + slot + 1])
            /\ \A pos \in 0..(StreamLen - 1) :
                   X_ret = generate(load_data(data_file), call.time_buckets, Passes,
                                    Pairs, StackLen, [pos |-> pos]).X

\* two passes over two rows, where the two pairs drawn for a row differ
C8_Witness ==
    /\ Generated
    /\ Passes = 2 /\ Pairs = 2 /\ NumVideos = 2
    /\ X_ret[1] # X_ret[2]
    /\ X_ret[Len(X_ret) \div 2 + 1] = X_ret[1]

\* C10: main's call runs with the configured globals, so on 20-frame videos
\* it passes the precondition.
C10_MainUsesConfiguredStack ==
    (caller = "main" /\ NumTotalFrames = MNIST_SEQ_LEN) =>
        /\ call.num_frames_in_stack = NUM_FRAMES_IN_STACK
        /\ call.num_passes_for_generation = NUM_ROWS
        /\ call.num_pairs_per_example = NUM_VIDEOS_PER_ROW
        /\ MaxDiffOf(call) <= MNIST_SEQ_LEN - call.num_frames_in_stack
        /\ outcome = "returned"

----------------------------------------------------------------------------
(* The helpers applied on their own to enumerated arguments *)

PipelineIdle ==
    /\ data_file = <<0, 0, 0, 0>>
    /\ mt_stream = <<>>
    /\ np_random = [pos |-> 0]
    /\ X_pkl = NoFile
    /\ y_pkl = NoFile
    /\ last_written = [X |-> <<>>, y |-> <<>>]
    /\ caller = "none"
    /\ call = NoCall
    /\ outcome = "none"
    /\ X_ret = <<>>
    /\ y_ret = <<>>
    /\ events = <<>>

\* the increasing list of the members of S
SortedSeq(S) ==
    CHOOSE s \in [1..Cardinality(S) -> S] :
        \A i \in 1..(Cardinality(S) - 1) : s[i] < s[i + 1]

Buckets == {SortedSeq(S) : S \in (SUBSET (0..MaxTime)) \ {{}}}

BucketLists == {TIME_BUCKETS} \cup UNION {[1..n -> Buckets] : n \in 1..MaxBuckets}

InitBuckets ==
    /\ PipelineIdle
    /\ fn_args \in [fn : {"get_time_buckets_dict"}, time_buckets : BucketLists]
    /\ fn_result = Pending

ApplyTimeBuckets ==
    /\ fn_args.fn = "get_time_buckets_dict"
    /\ fn_result = Pending
    /\ fn_result' = Done(get_time_buckets_dict(fn_args.time_buckets))
    /\ UNCHANGED <<pipeline_vars, fn_args>>

NextBuckets == ApplyTimeBuckets

SpecBuckets == InitBuckets /\ [][NextBuckets]_vars

InitFrames ==
    /\ PipelineIdle
    /\ fn_args \in [fn : {"get_frame_differences_dict"},
                    num_total_frames : 1..MaxNumTotalFrames,
                    max_frame_diff : 0..MaxFrameDiff,
                    num_frames_in_stack : 1..MaxNumFramesInStack]
    /\ fn_result = Pending

ApplyFrameDifferences ==
    /\ fn_args.fn = "get_frame_differences_dict"
    /\ fn_result = Pending
    /\ fn_result' = Done(get_frame_differences_dict(fn_args.num_total_frames,
                                                    fn_args.max_frame_diff,
                                                    fn_args.num_frames_in_stack))
    /\ UNCHANGED <<pipeline_vars, fn_args>>

NextFrames == ApplyFrameDifferences

SpecFrames == InitFrames /\ [][NextFrames]_vars

InitSplit ==
    /\ PipelineIdle
    /\ fn_args \in [fn : {"generate_dataloader"},
                    dataset_len : 0..MaxDatasetLen,
                    test_num : 0..Denominator,
                    val_num : 0..Denominator]
    /\ fn_result = Pending

ApplySplit ==
    /\ fn_args.fn = "generate_dataloader"
    /\ fn_result = Pending
    /\ fn_result' = Done(split_sizes(fn_args.dataset_len, fn_args.test_num, fn_args.val_num))
    /\ UNCHANGED <<pipeline_vars, fn_args>>

NextSplit == ApplySplit

SpecSplit == InitSplit /\ [][NextSplit]_vars

----------------------------------------------------------------------------
\* C3: for TIME_BUCKETS and for every bucket list that partitions
\* 0..max_diff, the dictionary has exactly the keys 0..max_diff and each key
\* maps to the 0-based index of the one bucket that contains it.
IsPartition(time_buckets) ==
    \A t \in 0..ArrayMax(Hstack(time_buckets)) :
        Cardinality({i \in DOMAIN time_buckets : t \in Range(time_buckets[i])}) = 1

C3_BucketsDictMapsEachDifference ==
    (fn_result.done /\ IsPartition(fn_args.time_buckets)) =>
        LET tb == fn_args.time_buckets
        IN  /\ DOMAIN fn_result.value = 0..ArrayMax(Hstack(tb))
            /\ \A t \in DOMAIN fn_result.value : \A i \in DOMAIN tb :
                   (t \in Range(tb[i])) <=> (fn_result.value[t] = i - 1)

C3_Witness ==
    /\ fn_result.done
    /\ fn_args.time_buckets = TIME_BUCKETS
    /\ IsPartition(TIME_BUCKETS)
    /\ fn_result.value[4] = 3
    /\ fn_result.value[19] = 5

\* C4: every stored pair lies inside the video and is exactly d apart.
C4_PairsInsideVideo ==
    fn_result.done =>
        \A d \in DOMAIN fn_result.value : \A i \in DOMAIN fn_result.value[d] :
            LET start_frame == fn_result.value[d][i][1]
                end_frame == fn_result.value[d][i][2]
            IN  /\ 0 <= start_frame
                /\ start_frame <= fn_args.num_total_frames - 1
                /\ 0 <= end_frame
                /\ end_frame <= fn_args.num_total_frames - 1
                /\ end_frame - start_frame = d

C4_Witness ==
    /\ fn_result.done
    /\ fn_args.num_frames_in_stack = 2
    /\ 2 \in DOMAIN fn_result.value
    /\ Len(fn_result.value[2]) >= 2
    /\ fn_result.value[2][Len(fn_result.value[2])][2] = fn_args.num_total_frames - 1

\* test_size in [0, 1), val_size >= 0 and test_size + val_size <= 1
ValidFractions ==
    /\ fn_args.test_num < Denominator
    /\ fn_args.test_num + fn_args.val_num <= Denominator

\* C5: the three sizes handed to random_split sum to the dataset length.
C5_SplitSizesSumToLen ==
    (fn_result.done /\ ValidFractions) =>
        fn_result.value.num_train + fn_result.value.num_val + fn_result.value.num_test
            = fn_args.dataset_len

C5_Witness ==
    /\ fn_result.done
    /\ ValidFractions
    /\ fn_result.value.num_train > 0
    /\ fn_result.value.num_val > 0
    /\ fn_result.value.num_test > 0
    /\ (fn_args.test_num * fn_args.dataset_len) % Denominator # 0

\* C9 as stated: num_val = floor(val_size x num_train_val).
C9_ValIsFractionOfRemainder ==
    (fn_result.done /\ ValidFractions) =>
        LET num_train_val == fn_args.dataset_len - fn_result.value.num_test
        IN  /\ fn_result.value.num_test = (fn_args.test_num * fn_args.dataset_len) \div Denominator
            /\ fn_result.value.num_val = (fn_args.val_num * num_train_val) \div Denominator
            /\ fn_result.value.num_train = num_train_val - fn_result.value.num_val

\* C9 amended: num_val is the largest integer with
\* num_val x (1 - test_size) <= val_size x num_train_val: val_size is rescaled
\* by 1/(1 - test_size), so it is a fraction of the whole dataset.
C9_ValIsRescaledFraction ==
    (fn_result.done /\ ValidFractions) =>
        LET num_train_val == fn_args.dataset_len - fn_result.value.num_test
            rest == Denominator - fn_args.test_num
        IN  /\ fn_result.value.num_test * Denominator <= fn_args.test_num * fn_args.dataset_len
            /\ fn_args.test_num * fn_args.dataset_len < (fn_result.value.num_test + 1) * Denominator
            /\ fn_result.value.num_val * rest <= fn_args.val_num * num_train_val
            /\ fn_args.val_num * num_train_val < (fn_result.value.num_val + 1) * rest
            /\ fn_result.value.num_train = num_train_val - fn_result.value.num_val

C9_Witness ==
    /\ fn_result.done
    /\ ValidFractions
    /\ fn_args.test_num > 0
    /\ fn_result.value.num_val > (fn_args.val_num * (fn_args.dataset_len - fn_result.value.num_test)) \div Denominator

====
